---- MODULE Spec2Model ----
(***************************************************************************)
(* Model of partridge/readers.py: the calendar resolver                   *)
(* (_service_ids_by_date), the aggregate queries built on it, and the     *)
(* feed loader (load_feed, _unpack_feed, _load_feed).                     *)
(*                                                                         *)
(* A date text "YYYYMMDD" is written as the number it spells (the text    *)
(* "20200531" is 20200531); a parsed date is its proleptic Gregorian      *)
(* ordinal, as datetime.date.toordinal() gives it.                        *)
(***************************************************************************)
EXTENDS Integers, Sequences, FiniteSets, TLC

VARIABLES
    feed,       \* the raw feed a read_* call works on: trips, calendar, calendar_dates
    called,     \* the read_* operation that ran ("" before any)
    outcome,    \* what it returned or raised
    path,       \* load_feed: what the path argument names on disk
    config,     \* load_feed: the dependency graph argument
    filters,    \* load_feed: the filter mapping, in the caller's order
    pc,         \* load_feed: position in the call
    events,     \* load_feed: filesystem and view operations performed so far
    layers,     \* load_feed: the stack of Feed views built, innermost first
    raised      \* load_feed: the error raised ("" when none)

vars == <<feed, called, outcome, path, config, filters, pc, events, layers, raised>>

feed_vars == <<feed, called, outcome>>
load_vars == <<path, config, filters, pc, events, layers, raised>>

-----------------------------------------------------------------------------
(* Bounds and input sets                                                   *)

MaxTrips == 2
MaxRows == 3
MaxFilters == 2

ServiceIds == {"WD", "HOL"}

\* Sunday 2020-05-31 and Monday 2020-06-01: the days either side of an ISO week boundary
DateTexts == {20200531, 20200601}

Weekdays == <<"1", "1", "1", "1", "1", "0", "0">>
Everyday == <<"1", "1", "1", "1", "1", "1", "1">>

\* start_date, end_date and the monday..sunday flags of a weekly row:
\* every day from Sunday 2020-05-31 to Tuesday 2020-06-02, or the weekdays of
\* Sunday 2020-05-31 to Monday 2020-06-01
WeeklyPatterns == {<<20200531, 20200602, Everyday>>, <<20200531, 20200601, Weekdays>>}

DAY_NAMES == <<"monday", "tuesday", "wednesday", "thursday", "friday", "saturday", "sunday">>

SeqsUpTo(S, n) == UNION {[1..k -> S] : k \in 0..n}

TripRows == [service_id : ServiceIds]

CalendarRows ==
    {[service_id |-> s, start_date |-> w[1], end_date |-> w[2],
      monday |-> w[3][1], tuesday |-> w[3][2], wednesday |-> w[3][3], thursday |-> w[3][4],
      friday |-> w[3][5], saturday |-> w[3][6], sunday |-> w[3][7]] :
        s \in ServiceIds, w \in WeeklyPatterns}

CalendarDateRows == [service_id : ServiceIds, date : DateTexts, exception_type : {"1", "2"}]

-----------------------------------------------------------------------------
(* Dates                                                                   *)

is_leap(y) == y % 4 = 0 /\ (y % 100 # 0 \/ y % 400 = 0)

days_before_year(y) == (y - 1) * 365 + (y - 1) \div 4 - (y - 1) \div 100 + (y - 1) \div 400

\* the days of a common year before each month
DAYS_BEFORE_MONTH == <<0, 31, 59, 90, 120, 151, 181, 212, 243, 273, 304, 334>>

days_before_month(y, m) == DAYS_BEFORE_MONTH[m] + (IF m > 2 /\ is_leap(y) THEN 1 ELSE 0)

\* strptime(val, "%Y%m%d").date(), as an ordinal
vparse_date(text) ==
    LET y == text \div 10000
        m == (text \div 100) % 100
        d == text % 100
    IN  days_before_year(y) + days_before_month(y, m) + d

\* datetime.date.weekday(): Monday is 0, Sunday is 6
weekday(ordinal) == (ordinal + 6) % 7

\* int() of a weekday flag
int(flag) == IF flag = "1" THEN 1 ELSE 0

-----------------------------------------------------------------------------
(* Dictionaries: a function with a finite domain                           *)

EmptyDict == << >>

Items(d) == DOMAIN d

del(d, k) == [x \in (DOMAIN d) \ {k} |-> d[x]]

\* defaultdict(set): d[k].add(v)
add(d, k, v) ==
    IF k \in DOMAIN d THEN [d EXCEPT ![k] = @ \cup {v}]
    ELSE [x \in (DOMAIN d) \cup {k} |-> IF x = k THEN {v} ELSE d[x]]

\* defaultdict(int): d[k] += n
increment(d, k, n) ==
    IF k \in DOMAIN d THEN [d EXCEPT ![k] = @ + n]
    ELSE [x \in (DOMAIN d) \cup {k} |-> IF x = k THEN n ELSE d[x]]

\* defaultdict(set) read: d[k]
get_set(d, k) == IF k \in DOMAIN d THEN d[k] ELSE {}

Min(S) == CHOOSE x \in S : \A y \in S : x <= y

-----------------------------------------------------------------------------
(* _service_ids_by_date                                                    *)

Return(v) == [status |-> "ok", value |-> v]
Raise(error) == [status |-> error, value |-> << >>]

\* set(feed.trips.service_id)
trip_service_ids(f) == {f.trips[i].service_id : i \in DOMAIN f.trips}

\* table[table.service_id.isin(service_ids)], skipped for an empty table
applicable(table, service_ids) ==
    IF table # << >> THEN SelectSeq(table, LAMBDA row : row.service_id \in service_ids)
    ELSE table

\* dow = {i: cal[day] for i, day in enumerate(DAY_NAMES)}
dow(cal) == [i \in 0..6 |-> cal[DAY_NAMES[i + 1]]]

\* the day loop with range(start, end): the end date left out
RECURSIVE calendar_days_end_excluded(_, _, _, _)
calendar_days_end_excluded(results, cal, ordinal, end) ==
    IF ordinal >= end THEN results
    ELSE calendar_days_end_excluded(
            IF int(dow(cal)[weekday(ordinal)]) # 0
            THEN add(results, ordinal, cal.service_id) ELSE results,
            cal, ordinal + 1, end)

\* for ordinal in range(start, end + 1): if int(dow[date.weekday()]): results[date].add(...)
RECURSIVE calendar_days(_, _, _, _)
calendar_days(results, cal, ordinal, end) ==
    IF ordinal > end THEN results
    ELSE calendar_days(
            IF int(dow(cal)[weekday(ordinal)]) # 0
            THEN add(results, ordinal, cal.service_id) ELSE results,
            cal, ordinal + 1, end)

\* for _, cal in calendar.iterrows()
RECURSIVE calendar_ranges(_, _)
calendar_ranges(results, calendar) ==
    IF calendar = << >> THEN results
    ELSE calendar_ranges(
            calendar_days(results, Head(calendar),
                          vparse_date(Head(calendar).start_date),
                          vparse_date(Head(calendar).end_date)),
            Tail(calendar))

cdadd(caldates) == SelectSeq(caldates, LAMBDA cd : cd.exception_type = "1")
cdrem(caldates) == SelectSeq(caldates, LAMBDA cd : cd.exception_type = "2")

\* for _, cd in cdadd.iterrows(): results[cd.date].add(cd.service_id)
RECURSIVE additions(_, _)
additions(results, rows) ==
    IF rows = << >> THEN results
    ELSE additions(add(results, vparse_date(Head(rows).date), Head(rows).service_id), Tail(rows))

\* the keys of removals, in insertion order
RECURSIVE removal_dates(_, _)
removal_dates(seen, rows) ==
    IF rows = << >> THEN seen
    ELSE LET date == vparse_date(Head(rows).date)
         IN  removal_dates(IF \E i \in DOMAIN seen : seen[i] = date THEN seen
                           ELSE Append(seen, date),
                           Tail(rows))

\* one date of the removal pass: discard the removed services, drop an emptied key
drop_removed(results, date, service_ids) ==
    LET left == get_set(results, date) \ service_ids
    IN  IF Cardinality(left) = 0 THEN del(results, date)
        ELSE [x \in (DOMAIN results) \cup {date} |-> IF x = date THEN left ELSE results[x]]

\* for date in removals
RECURSIVE process_removals(_, _, _)
process_removals(results, removals, dates) ==
    IF dates = << >> THEN results
    ELSE process_removals(drop_removed(results, Head(dates), removals[Head(dates)]),
                          removals, Tail(dates))

\* results once the calendar ranges and the added exceptions are in
accumulated(f) ==
    LET service_ids == trip_service_ids(f)
        calendar == applicable(f.calendar, service_ids)
        caldates == applicable(f.calendar_dates, service_ids)
        ranged   == IF calendar # << >> THEN calendar_ranges(EmptyDict, calendar) ELSE EmptyDict
    IN  IF caldates # << >> THEN additions(ranged, cdadd(caldates)) ELSE ranged

\* results when the assertion is reached
resolved(f) ==
    LET caldates == applicable(f.calendar_dates, trip_service_ids(f))
    IN  IF caldates # << >>
        THEN process_removals(accumulated(f),
                              additions(EmptyDict, cdrem(caldates)),
                              removal_dates(<< >>, cdrem(caldates)))
        ELSE accumulated(f)

\* the assertion placed before the removal pass
service_ids_asserted_early(f) ==
    IF Items(accumulated(f)) = {} THEN Raise("AssertionError")
    ELSE Return(resolved(f))

_service_ids_by_date(f) ==
    LET results == resolved(f)
    IN  IF Items(results) = {} THEN Raise("AssertionError")
        ELSE Return(results)

-----------------------------------------------------------------------------
(* Aggregate queries                                                       *)

\* the grouping with results[service_ids] = {date}: a bucket keeps its last date only
RECURSIVE group_dates_overwriting(_, _, _)
group_dates_overwriting(results, service_ids_by_date, dates) ==
    IF dates = {} THEN results
    ELSE LET date == Min(dates)
         IN  group_dates_overwriting(
                [k \in (DOMAIN results) \cup {service_ids_by_date[date]} |->
                    IF k = service_ids_by_date[date] THEN {date} ELSE results[k]],
                service_ids_by_date, dates \ {date})

\* for date, service_ids in ...items(): results[service_ids].add(date)
RECURSIVE group_dates(_, _, _)
group_dates(results, service_ids_by_date, dates) ==
    IF dates = {} THEN results
    ELSE LET date == Min(dates)
         IN  group_dates(add(results, service_ids_by_date[date], date),
                         service_ids_by_date, dates \ {date})

_dates_by_service_ids(f) ==
    LET sbd == _service_ids_by_date(f)
    IN  IF sbd.status # "ok" THEN sbd
        ELSE Return(group_dates(EmptyDict, sbd.value, Items(sbd.value)))

\* the count of distinct services instead of trip rows
trip_count_of_services(trips, service_ids) ==
    Cardinality({trips[i].service_id : i \in DOMAIN trips} \cap service_ids)

\* trips[trips.service_id.isin(service_ids)].shape[0]
trip_count(trips, service_ids) ==
    Cardinality({i \in DOMAIN trips : trips[i].service_id \in service_ids})

\* for date in dates: results[date] += trip_count
RECURSIVE broadcast(_, _, _)
broadcast(results, dates, count) ==
    IF dates = {} THEN results
    ELSE broadcast(increment(results, Min(dates), count), dates \ {Min(dates)}, count)

\* for service_ids, dates in ...items()
RECURSIVE count_buckets(_, _, _, _)
count_buckets(results, trips, dates_by_service, buckets) ==
    IF buckets = {} THEN results
    ELSE LET service_ids == CHOOSE b \in buckets : TRUE
         IN  count_buckets(
                broadcast(results, dates_by_service[service_ids],
                          trip_count(trips, service_ids)),
                trips, dates_by_service, buckets \ {service_ids})

_trip_counts_by_date(f) ==
    LET dbs == _dates_by_service_ids(f)
    IN  IF dbs.status # "ok" THEN dbs
        ELSE Return(count_buckets(EmptyDict, f.trips, dbs.value, Items(dbs.value)))

\* the comparison of two max_by keys (count, -ordinal): a > b
key_greater(a, b) == a[1] > b[1] \/ (a[1] = b[1] /\ a[2] > b[2])

\* max_by without the negation: a tie goes to the latest date
date_key_latest(date, count) == <<count, date>>

\* _busiest_date's max_by
date_key(date, count) == <<count, -date>>

\* max(items, key): the first item no later item beats
RECURSIVE max_date(_, _, _)
max_date(best, counts, dates) ==
    IF dates = {} THEN best
    ELSE LET date == Min(dates)
         IN  max_date(IF key_greater(date_key(date, counts[date]), date_key(best, counts[best]))
                      THEN date ELSE best,
                      counts, dates \ {date})

_busiest_date(f) ==
    LET sbd == _service_ids_by_date(f)
        counts == _trip_counts_by_date(f)
    IN  IF sbd.status # "ok" THEN sbd
        ELSE LET date == max_date(Min(Items(counts.value)), counts.value, Items(counts.value))
             IN  Return(<<date, sbd.value[date]>>)

\* Week.withdate(date): the ISO week of the date, named by its Monday
week_withdate(date) == date - weekday(date)

\* Week.toordinal()
week_toordinal(week) == week \div 7 + 1

\* max_by without the negation: a tie goes to the latest week
week_key_latest(week, count) == <<count, week_toordinal(week)>>

\* _busiest_week's max_by
week_key(week, count) == <<count, -week_toordinal(week)>>

\* the weekly total assigned instead of accumulated
RECURSIVE weekly_trip_counts_assigned(_, _, _)
weekly_trip_counts_assigned(results, counts, dates) ==
    IF dates = {} THEN results
    ELSE LET date == Min(dates)
         IN  weekly_trip_counts_assigned(
                [k \in (DOMAIN results) \cup {week_withdate(date)} |->
                    IF k = week_withdate(date) THEN counts[date] ELSE results[k]],
                counts, dates \ {date})

\* weekly_trip_counts[key] += trip_counts_by_date[date]
RECURSIVE weekly_trip_counts(_, _, _)
weekly_trip_counts(results, counts, dates) ==
    IF dates = {} THEN results
    ELSE LET date == Min(dates)
         IN  weekly_trip_counts(increment(results, week_withdate(date), counts[date]),
                                counts, dates \ {date})

\* weekly_dates[key].append(date)
RECURSIVE weekly_dates(_, _)
weekly_dates(results, dates) ==
    IF dates = {} THEN results
    ELSE LET date == Min(dates)
         IN  weekly_dates(add(results, week_withdate(date), date), dates \ {date})

RECURSIVE max_week(_, _, _)
max_week(best, totals, weeks) ==
    IF weeks = {} THEN best
    ELSE LET week == Min(weeks)
         IN  max_week(IF key_greater(week_key(week, totals[week]), week_key(best, totals[best]))
                      THEN week ELSE best,
                      totals, weeks \ {week})

_busiest_week(f) ==
    LET sbd == _service_ids_by_date(f)
        counts == _trip_counts_by_date(f)
    IN  IF sbd.status # "ok" THEN sbd
        ELSE LET totals == weekly_trip_counts(EmptyDict, counts.value, Items(sbd.value))
                 dates  == weekly_dates(EmptyDict, Items(sbd.value))
                 week   == max_week(Min(Items(totals)), totals, Items(totals))
             IN  Return([date \in dates[week] |-> sbd.value[date]])

-----------------------------------------------------------------------------
(* The read_* operations on a raw feed                                     *)

read_service_ids_by_date ==
    /\ called = ""
    /\ called' = "service_ids_by_date"
    /\ outcome' = _service_ids_by_date(feed)
    /\ UNCHANGED <<feed, load_vars>>

read_dates_by_service_ids ==
    /\ called = ""
    /\ called' = "dates_by_service_ids"
    /\ outcome' = _dates_by_service_ids(feed)
    /\ UNCHANGED <<feed, load_vars>>

read_trip_counts_by_date ==
    /\ called = ""
    /\ called' = "trip_counts_by_date"
    /\ outcome' = _trip_counts_by_date(feed)
    /\ UNCHANGED <<feed, load_vars>>

read_busiest_date ==
    /\ called = ""
    /\ called' = "busiest_date"
    /\ outcome' = _busiest_date(feed)
    /\ UNCHANGED <<feed, load_vars>>

read_busiest_week ==
    /\ called = ""
    /\ called' = "busiest_week"
    /\ outcome' = _busiest_week(feed)
    /\ UNCHANGED <<feed, load_vars>>

Init ==
    /\ \E t \in SeqsUpTo(TripRows, MaxTrips) :
       \E c \in SeqsUpTo(CalendarRows, MaxRows) :
       \E e \in SeqsUpTo(CalendarDateRows, MaxRows - Len(c)) :
          feed = [trips |-> t, calendar |-> c, calendar_dates |-> e]
    /\ called = ""
    /\ outcome = Return(<< >>)
    /\ path = "" /\ config = << >> /\ filters = << >>
    /\ pc = "" /\ events = << >> /\ layers = << >> /\ raised = ""

Next ==
    \/ read_service_ids_by_date
    \/ read_dates_by_service_ids
    \/ read_trip_counts_by_date
    \/ read_busiest_date
    \/ read_busiest_week

Spec == Init /\ [][Next]_vars

-----------------------------------------------------------------------------
(* load_feed                                                               *)

Tables == {"agency.txt", "routes.txt", "trips.txt"}

\* a dependency graph: its edges, and the nodes that carry a "converters" attribute
Graphs ==
    [edges : SUBSET {e \in Tables \X Tables : e[1] # e[2]}, converters : SUBSET Tables]

ColumnFilters == {"route_id", "trip_id"}

\* a filter mapping: distinct filenames in the caller's order, each with its column filter
FilterMappings ==
    {m \in SeqsUpTo(Tables \X ColumnFilters, MaxFilters) :
        \A i, j \in DOMAIN m : i # j => m[i][1] # m[j][1]}

Paths == {"directory", "archive", "missing"}

\* the nodes reached from the set S along one or more edges
RECURSIVE descendants(_, _, _)
descendants(edges, S, seen) ==
    LET next == {e[2] : e \in {x \in edges : x[1] \in S}} \ seen
    IN  IF next = {} THEN seen ELSE descendants(edges, next, seen \cup next)

\* nx.is_directed_acyclic_graph
is_directed_acyclic_graph(G) ==
    \A n \in Tables : n \notin descendants(G.edges, {n}, {})

\* the edges (parent, child) of the breadth-first tree from the frontier
RECURSIVE bfs_successors(_, _, _)
bfs_successors(edges, frontier, visited) ==
    LET next == {w \in Tables \ visited : \E v \in frontier : <<v, w>> \in edges}
        tree == {<<CHOOSE v \in frontier : <<v, w>> \in edges, w>> : w \in next}
    IN  IF next = {} THEN {} ELSE tree \cup bfs_successors(edges, next, visited \cup next)

\* a copy of the graph with every edge of the breadth-first tree from the node reversed
reroot_graph(G, node) ==
    LET tree == bfs_successors(G.edges, {node}, {node})
    IN  [G EXCEPT !.edges = (@ \ tree) \cup {<<e[2], e[1]>> : e \in tree}]

\* a copy of the graph without the attribute on any node
remove_node_attributes(G, attribute) ==
    IF attribute = "converters" THEN [G EXCEPT !.converters = {}] ELSE G

NoView == << >>

\* Feed(source, view, config): one view layer
Feed(view, graph) == [view |-> view, config |-> graph]

\* for filename, column_filters in filters.items()
RECURSIVE filter_layers(_, _, _)
filter_layers(built, filter_config, items) ==
    IF items = << >> THEN built
    ELSE LET filename == Head(items)[1]
             rerooted == reroot_graph(filter_config, filename)
         IN  filter_layers(Append(built, Feed(<<filename, Head(items)[2]>>, rerooted)),
                           rerooted, Tail(items))

\* the base view built with the caller's graph, converters and all
load_feed_unstripped(view, graph) ==
    Append(filter_layers(<<Feed(NoView, graph)>>,
                         remove_node_attributes(graph, "converters"), view),
           Feed(NoView, graph))

\* the stack of views _load_feed builds, innermost first
_load_feed(view, graph) ==
    LET filter_config == remove_node_attributes(graph, "converters")
    IN  Append(filter_layers(<<Feed(NoView, filter_config)>>, filter_config, view),
               Feed(NoView, graph))

RECURSIVE Repeat(_, _)
Repeat(x, n) == IF n = 0 THEN << >> ELSE <<x>> \o Repeat(x, n - 1)

LoadInit ==
    /\ path \in Paths
    /\ config \in Graphs
    /\ filters \in FilterMappings
    /\ pc = "check_config"
    /\ events = << >>
    /\ layers = << >>
    /\ raised = ""
    /\ feed = [trips |-> << >>, calendar |-> << >>, calendar_dates |-> << >>]
    /\ called = ""
    /\ outcome = Return(<< >>)

\* the path looked at before the graph is checked
check_config_after_path ==
    /\ pc = "check_config"
    /\ events' = Append(events, "isdir")
    /\ IF is_directed_acyclic_graph(config)
       THEN pc' = "isdir" /\ raised' = raised
       ELSE pc' = "done" /\ raised' = "Config must be a DAG"
    /\ UNCHANGED <<path, config, filters, layers, feed_vars>>

\* if not nx.is_directed_acyclic_graph(config): raise ValueError("Config must be a DAG")
check_config ==
    /\ pc = "check_config"
    /\ IF is_directed_acyclic_graph(config)
       THEN pc' = "isdir" /\ raised' = raised
       ELSE pc' = "done" /\ raised' = "Config must be a DAG"
    /\ UNCHANGED <<path, config, filters, events, layers, feed_vars>>

\* if os.path.isdir(path): feed = _load_feed(path, filters, config)
load_directory ==
    /\ pc = "isdir"
    /\ IF path = "directory"
       THEN /\ layers' = _load_feed(filters, config)
            /\ events' = events \o <<"isdir">> \o Repeat("Feed", Len(layers'))
            /\ pc' = "done"
       ELSE /\ layers' = layers
            /\ events' = Append(events, "isdir")
            /\ pc' = "isfile"
    /\ UNCHANGED <<path, config, filters, raised, feed_vars>>

\* elif os.path.isfile(path): feed = _unpack_feed(path, filters, config)
unpack_feed ==
    /\ pc = "isfile"
    /\ path = "archive"
    /\ layers' = _load_feed(filters, config)
    /\ events' = events \o <<"isfile", "mkdtemp", "unpack_archive">>
                        \o Repeat("Feed", Len(layers'))
                        \o <<"_delete_after_reading", "weakref.finalize">>
    /\ pc' = "done"
    /\ UNCHANGED <<path, config, filters, raised, feed_vars>>

\* else: raise ValueError("File or path not found: ...")
path_not_found ==
    /\ pc = "isfile"
    /\ path # "archive"
    /\ events' = Append(events, "isfile")
    /\ raised' = "File or path not found"
    /\ pc' = "done"
    /\ UNCHANGED <<path, config, filters, layers, feed_vars>>

LoadNext ==
    \/ check_config
    \/ load_directory
    \/ unpack_feed
    \/ path_not_found

LoadSpec == LoadInit /\ [][LoadNext]_vars

-----------------------------------------------------------------------------
(* What the calendar claims are stated in                                  *)

\* the dates a row of the input sets can name
NamedDays ==
    {vparse_date(t) :
        t \in DateTexts \cup {w[1] : w \in WeeklyPatterns} \cup {w[2] : w \in WeeklyPatterns}}

Max(S) == CHOOSE x \in S : \A y \in S : y <= x

\* every date from the day before the first named one to the day after the last
Universe == (Min(NamedDays) - 1)..(Max(NamedDays) + 1)

\* the first day of every run of 7 days that holds a date of Universe
WindowStarts == (Min(NamedDays) - 7)..(Max(NamedDays) + 1)

Referenced(s) == \E i \in DOMAIN feed.trips : feed.trips[i].service_id = s

\* W(d): referenced services of weekly rows in range on d with d's weekday flag set
Weekly(d) ==
    {s \in ServiceIds :
        /\ Referenced(s)
        /\ \E i \in DOMAIN feed.calendar :
              LET row == feed.calendar[i]
              IN  /\ row.service_id = s
                  /\ vparse_date(row.start_date) <= d
                  /\ d <= vparse_date(row.end_date)
                  /\ row[DAY_NAMES[((d - 1) % 7) + 1]] = "1"}

Excepted(d, type) ==
    {s \in ServiceIds :
        /\ Referenced(s)
        /\ \E i \in DOMAIN feed.calendar_dates :
              LET row == feed.calendar_dates[i]
              IN  row.service_id = s /\ vparse_date(row.date) = d /\ row.exception_type = type}

\* S(d) = (W(d) \cup A(d)) \ R(d)
Active(d) == (Weekly(d) \cup Excepted(d, "1")) \ Excepted(d, "2")

ServiceIdsByDate == _service_ids_by_date(feed).value
CountsByDate == _trip_counts_by_date(feed).value

RECURSIVE Sum(_, _)
Sum(counts, dates) ==
    IF dates = {} THEN 0
    ELSE LET d == CHOOSE x \in dates : TRUE IN counts[d] + Sum(counts, dates \ {d})

\* the ISO week of a date, counted from the week of ordinal 1 (a Monday)
IsoWeek(d) == (d - 1) \div 7

WeekTotal(counts, w) == Sum(counts, {d \in DOMAIN counts : IsoWeek(d) = w})

\* the trips of the 7 days starting on s
WindowTotal(counts, s) == Sum(counts, {d \in DOMAIN counts : s <= d /\ d < s + 7})

Returned(op) == called = op /\ outcome.status = "ok"

-----------------------------------------------------------------------------
\* C1: whenever _service_ids_by_date returns, its result maps exactly the dates d
\* with a non-empty S(d) = (W(d) \cup A(d)) \ R(d) to S(d), over the rows whose
\* service a trip references, whatever the order of the rows.
C1_ExactActiveServices ==
    Returned("service_ids_by_date") =>
        outcome.value = [d \in {x \in Universe : Active(x) # {}} |-> Active(d)]

\* a returned result where a (date, service) pair is removed by an earlier row and
\* added by a later one, and the weekly rows contribute too
C1_Witness ==
    /\ Returned("service_ids_by_date")
    /\ \E i, j \in DOMAIN feed.calendar_dates :
          /\ i < j
          /\ feed.calendar_dates[i].exception_type = "2"
          /\ feed.calendar_dates[j].exception_type = "1"
          /\ feed.calendar_dates[i].date = feed.calendar_dates[j].date
          /\ feed.calendar_dates[i].service_id = feed.calendar_dates[j].service_id
          /\ Referenced(feed.calendar_dates[i].service_id)
    /\ \E d \in Universe : Weekly(d) # {}

\* C2: _trip_counts_by_date has the keys of ServiceIdsByDate and gives each date
\* the number of trips rows whose service_id is in that date's Service.
C2_TripCounts ==
    Returned("trip_counts_by_date") =>
        LET services == ServiceIdsByDate
        IN  /\ DOMAIN outcome.value = DOMAIN services
            /\ \A d \in DOMAIN outcome.value :
                  outcome.value[d] =
                      Cardinality({i \in DOMAIN feed.trips :
                                      feed.trips[i].service_id \in services[d]})

\* two dates in different buckets with different counts, one of them above 1
C2_Witness ==
    /\ Returned("trip_counts_by_date")
    /\ LET services == ServiceIdsByDate
       IN  \E d, e \in DOMAIN outcome.value :
              /\ services[d] # services[e]
              /\ outcome.value[d] > outcome.value[e]
              /\ outcome.value[d] > 1

\* C3: _busiest_date returns (d, ServiceIdsByDate[d]) for a date d of the maximum
\* trip count, the earliest of the dates with that count.
C3_BusiestDate ==
    Returned("busiest_date") =>
        LET d == outcome.value[1]
            counts == CountsByDate
        IN  /\ d \in DOMAIN counts
            /\ outcome.value[2] = ServiceIdsByDate[d]
            /\ \A e \in DOMAIN counts :
                  /\ counts[e] <= counts[d]
                  /\ counts[e] = counts[d] => d <= e

\* a tie for the maximum between two dates, with a less busy date as well
C3_Witness ==
    /\ Returned("busiest_date")
    /\ LET counts == CountsByDate
       IN  /\ \E e \in DOMAIN counts :
                  e # outcome.value[1] /\ counts[e] = counts[outcome.value[1]]
           /\ \E e \in DOMAIN counts : counts[e] < counts[outcome.value[1]]

\* C4: _busiest_week returns the sub-map of ServiceIdsByDate for all the dates of
\* one ISO week w and no others; w's total is at least that of every other week
\* of the map, and every week with an equal total is later than w.
C4_BusiestWeek ==
    Returned("busiest_week") =>
        LET services == ServiceIdsByDate
            counts == CountsByDate
            weeks == {IsoWeek(d) : d \in DOMAIN services}
        IN  \E w \in weeks :
                /\ DOMAIN outcome.value = {d \in DOMAIN services : IsoWeek(d) = w}
                /\ \A d \in DOMAIN outcome.value : outcome.value[d] = services[d]
                /\ Sum(counts, DOMAIN outcome.value) = WeekTotal(counts, w)
                /\ \A v \in weeks \ {w} :
                      /\ WeekTotal(counts, v) <= WeekTotal(counts, w)
                      /\ WeekTotal(counts, v) = WeekTotal(counts, w) => v > w

\* two weeks with the same total, one of them holding two dates
C4_Witness ==
    /\ Returned("busiest_week")
    /\ LET counts == CountsByDate
       IN  \E d, e, g \in DOMAIN counts :
              /\ IsoWeek(d) # IsoWeek(e)
              /\ WeekTotal(counts, IsoWeek(d)) = WeekTotal(counts, IsoWeek(e))
              /\ g # e /\ IsoWeek(g) = IsoWeek(e)

\* C5: the buckets of _dates_by_service_ids are non-empty and pairwise disjoint,
\* cover exactly the dates of ServiceIdsByDate, put two dates together exactly when
\* their Services are equal, and expand back to ServiceIdsByDate.
C5_ExactInverse ==
    Returned("dates_by_service_ids") =>
        LET buckets == outcome.value
            dates == UNION {buckets[k] : k \in DOMAIN buckets}
            services == ServiceIdsByDate
        IN  /\ \A k \in DOMAIN buckets : buckets[k] # {}
            /\ \A k, l \in DOMAIN buckets : k # l => buckets[k] \cap buckets[l] = {}
            /\ dates = DOMAIN services
            /\ \A d, e \in DOMAIN services :
                  (\E k \in DOMAIN buckets : d \in buckets[k] /\ e \in buckets[k])
                      <=> services[d] = services[e]
            /\ [d \in dates |-> CHOOSE k \in DOMAIN buckets : d \in buckets[k]]
                  = services

\* two buckets, one of them holding two dates
C5_Witness ==
    /\ Returned("dates_by_service_ids")
    /\ Cardinality(DOMAIN outcome.value) >= 2
    /\ \E k \in DOMAIN outcome.value : Cardinality(outcome.value[k]) >= 2

\* C6: _service_ids_by_date raises the assertion error exactly when no date has an
\* active service once additions and removals are applied, and a returned map is
\* never empty.
C6_NoServiceFound ==
    called = "service_ids_by_date" =>
        /\ outcome.status \in {"ok", "AssertionError"}
        /\ outcome.status = "AssertionError" <=> \A d \in Universe : Active(d) = {}
        /\ outcome.status = "ok" => DOMAIN outcome.value # {}

\* the error raised on a feed whose additions are all cancelled by removals
C6_Witness ==
    /\ called = "service_ids_by_date"
    /\ outcome.status = "AssertionError"
    /\ \E d \in Universe : Weekly(d) # {}
    /\ \E d \in Universe : Excepted(d, "1") # {}

\* C9 as claimed: the returned dates lie within 7 consecutive days and no run of
\* 7 consecutive days, starting on any weekday, has more trips than they have.
C9_AnyWindow ==
    Returned("busiest_week") =>
        LET counts == CountsByDate
            total == Sum(counts, DOMAIN outcome.value)
        IN  /\ \A d, e \in DOMAIN outcome.value : d - e < 7
            /\ \A s \in WindowStarts : WindowTotal(counts, s) <= total

\* C9 amended: the returned dates lie within 7 consecutive days and no run of 7
\* consecutive days starting on a Monday has more trips than they have.
C9_MondayWindow ==
    Returned("busiest_week") =>
        LET counts == CountsByDate
            total == Sum(counts, DOMAIN outcome.value)
        IN  /\ \A d, e \in DOMAIN outcome.value : d - e < 7
            /\ \A s \in WindowStarts : (s - 1) % 7 = 0 => WindowTotal(counts, s) <= total

\* a run of 7 days across the week boundary that has more trips than the week returned
C9_Witness ==
    /\ Returned("busiest_week")
    /\ LET counts == CountsByDate
       IN  \E s \in WindowStarts : WindowTotal(counts, s) > Sum(counts, DOMAIN outcome.value)

-----------------------------------------------------------------------------
\* C7: with a cyclic graph load_feed raises the configuration error, whatever the
\* path names, and no path check, staging directory, unpacking or view construction
\* happens at any point of the call.
C7_CyclicBeforeFilesystem ==
    ~is_directed_acyclic_graph(config) =>
        /\ events = << >>
        /\ layers = << >>
        /\ raised \in {"", "Config must be a DAG"}
        /\ pc = "done" => raised = "Config must be a DAG"
        /\ pc \in {"check_config", "done"}

\* the call has failed on a cyclic graph and a path that does not exist
C7_Witness ==
    /\ ~is_directed_acyclic_graph(config)
    /\ path = "missing"
    /\ pc = "done"
    /\ raised = "Config must be a DAG"

\* C8: for n filters _load_feed builds n + 2 layers: a base and one layer per
\* filter, in the caller's order and each with that one filter, all on graphs without
\* converters, and one outermost layer on the caller's graph with no column filter.
C8_ConvertOnceOutermost ==
    (pc = "done" /\ raised = "") =>
        LET n == Len(filters)
        IN  /\ Len(layers) = n + 2
            /\ layers[1].view = NoView
            /\ \A i \in 1..n : layers[i + 1].view = filters[i]
            /\ \A i \in 1..(n + 1) : layers[i].config.converters = {}
            /\ layers[n + 2].view = NoView
            /\ layers[n + 2].config = config

\* a load with at least two filters on a graph that has converters
C8_Witness ==
    /\ pc = "done" /\ raised = ""
    /\ Len(filters) >= 2
    /\ config.converters # {}
    /\ layers # << >>

\* C10: the graph of the i-th filter layer is the converter-stripped input graph
\* rerooted at the i-th filename, whatever was filtered before it.
C10_RerootOriginal ==
    (pc = "done" /\ raised = "") =>
        \A i \in 1..Len(filters) :
            layers[i + 1].config =
                reroot_graph(remove_node_attributes(config, "converters"), filters[i][1])

====
